---- MODULE Spec2Model ----
(***************************************************************************)
(* System Monitor Dashboard (src/app.py): the shared rolling history      *)
(* lists mutated by the /api/stats handler, the collectors it calls, the   *)
(* unit formatter get_size and the static collector get_system_info.       *)
(*                                                                         *)
(* The Flask development server started by app.run handles every request   *)
(* on its own thread, so several api_stats calls run at once.  The atomic  *)
(* steps of a request are the single list operations of CPython            *)
(* (list.append, len, list.pop); the code takes no lock around them.       *)
(***************************************************************************)
EXTENDS Integers, Sequences, FiniteSets, TLC

\* ------------------------------------------------------------------ bounds
\* number of /api/stats requests that are issued (each on its own thread)
MaxRequests == 2
\* the histories start with 0 entries or with MAX_HISTORY - PrefillSlack ..
\* MAX_HISTORY entries left by earlier, completed requests
PrefillSlack == 2
\* number of collectors among disk, network, gpu, temperature that fail on
\* the host of a sequential run
MaxFailing == 1
\* base-1024 digits of the byte counts given to get_size
MaxDigits == 7
\* number of mounted partitions given to get_disk_info
MaxPartitions == 3
\* number of GPUs given to get_system_info
MaxGpus == 2

\* ------------------------------------------------------- program constants
MAX_HISTORY == 60

Requests == 1..MaxRequests

VARIABLES
    cpu_history,   \* the module-level list cpu_history
    ram_history,   \* the module-level list ram_history
    pc,            \* position of every request inside api_stats
    cpu_info,      \* local cpu_info of every request
    ram_info,      \* local ram_info of every request
    stats,         \* local stats dict of every request (history by reference)
    response,      \* the JSON body produced by jsonify(stats)
    host,          \* what the host's OS layer answers to the collectors
    cpu_log,       \* history: every value ever appended to cpu_history
    ram_log,       \* history: every value ever appended to ram_history
    ops,           \* history: appends/pops performed by every request
    served,        \* history: number of requests answered so far
    fin,           \* argument of the function under test (function specs)
    fout           \* its result

vars == <<cpu_history, ram_history, pc, cpu_info, ram_info, stats, response,
          host, cpu_log, ram_log, ops, served, fin, fout>>

None == "None"

\* variant of DictGet: get(key) without a default, the missing value being
\* written -1
DictGet_no_default(d, key, default) == IF key \in DOMAIN d THEN d[key] ELSE 0 - 1

\* dict.get(key, default)
DictGet(d, key, default) == IF key \in DOMAIN d THEN d[key] ELSE default

Min(a, b) == IF a < b THEN a ELSE b

\* the last n elements of s, in order
LastN(s, n) == SubSeq(s, Len(s) - n + 1, Len(s))

\* ------------------------------------------------------------ get_size
\* A byte count is written in base 1024, least significant digit first:
\* <<512, 1>> is 1536.  Dividing by 1024 moves the lowest digit of the
\* integer part to the front of the fraction, which is exact on the floats
\* of the program as long as the count has at most 53 significant bits.
UNITS == <<"", "K", "M", "G", "T", "P">>

\* s without leading (most significant) zero digits, at least one digit kept
RECURSIVE Normalize(_)
Normalize(s) ==
    IF Len(s) > 1 /\ s[Len(s)] = 0 THEN Normalize(SubSeq(s, 1, Len(s) - 1))
    ELSE s

\* bytes < 1024 on an integer part given by its digits
Below1024(int) == Len(Normalize(int)) = 1

\* 100 * 0.f1 f2 ... fk (digits base 1024, f1 most significant) as
\* <<integer part, f'1 ... f'k>>, computed from the least significant digit
RECURSIVE Times100(_, _, _)
Times100(frac, carry, done) ==
    IF frac = <<>> THEN <<carry>> \o done
    ELSE LET t == 100 * frac[Len(frac)] + carry
         IN  Times100(SubSeq(frac, 1, Len(frac) - 1), t \div 1024,
                      <<t % 1024>> \o done)

AllZero(s) == \A i \in 1..Len(s) : s[i] = 0

\* round(100 * value) as the format specifier .2f rounds it: to the nearest
\* hundredth of the exact value, an exact tie going to the even neighbour
Hundredths(int, frac) ==
    LET p    == Times100(frac, 0, <<>>)
        q    == p[1]
        rest == Tail(p)
        up   == IF rest = <<>> \/ AllZero(rest) THEN 0
                ELSE IF rest[1] > 512 THEN 1
                ELSE IF rest[1] < 512 THEN 0
                ELSE IF AllZero(Tail(rest)) THEN q % 2
                ELSE 1
    IN  100 * Normalize(int)[1] + q + up

TwoDigits(n) == IF n < 10 THEN "0" \o ToString(n) ELSE ToString(n)

\* f"{bytes:.2f}{unit}B"
FormatSize(int, frac, unit) ==
    LET h == Hundredths(int, frac)
    IN  ToString(h \div 100) \o "." \o TwoDigits(h % 100) \o unit \o "B"

\* the for loop of get_size from unit number u on; falling out of the loop
\* ends the function without a return statement, i.e. with None
RECURSIVE get_size_loop(_, _, _)
get_size_loop(int, frac, u) ==
    IF u > Len(UNITS) THEN None
    ELSE IF Below1024(int) THEN FormatSize(int, frac, UNITS[u])
    ELSE get_size_loop(Tail(int), <<Head(int)>> \o frac, u + 1)

get_size(bytes) == get_size_loop(bytes, <<>>, 1)

\* ------------------------------------------------------------ collectors
\* What a psutil/GPUtil call answers: a value, or the exception it raises.
Ok(v)  == [val |-> v]
Exc(e) == [exc |-> e]
Raises(x) == "exc" \in DOMAIN x

\* {'error': str(e)}
ErrorDescriptor(x) == [error |-> x.exc]
IsErrorDescriptor(r) == DOMAIN r = {"error"}

\* get_disk_info returns a list or a dict: its list is written [list |-> s]
\* so that the two kinds of result can be told apart
List(s) == [list |-> s]

\* get_cpu_info on a host whose cpu_percent answers c
get_cpu_info(c) ==
    IF Raises(c) THEN ErrorDescriptor(c) ELSE [usage |-> c.val]

\* get_memory_info on a host whose virtual_memory answers m
get_memory_info(m) ==
    IF Raises(m) THEN ErrorDescriptor(m)
    ELSE [total |-> get_size(m.val.total), percent |-> m.val.percent]

\* the for loop of get_disk_info from partition number i on; parts[i].usage
\* is what disk_usage(parts[i].mountpoint) answers
RECURSIVE disk_loop(_, _, _)
\* variant of disk_loop: break instead of continue on a permission error
disk_loop_break(parts, i, partitions) ==
    IF i > Len(parts) THEN List(partitions)
    ELSE IF parts[i].usage = Exc("PermissionError") THEN List(partitions)
    ELSE IF Raises(parts[i].usage) THEN ErrorDescriptor(parts[i].usage)
    ELSE disk_loop(parts, i + 1,
                   Append(partitions,
                          [device |-> parts[i].device,
                           total  |-> get_size(parts[i].usage.val)]))

\* variant of disk_loop: every exception of a usage query skips the item
disk_loop_skip_all(parts, i, partitions) ==
    IF i > Len(parts) THEN List(partitions)
    ELSE IF Raises(parts[i].usage) THEN disk_loop(parts, i + 1, partitions)
    ELSE disk_loop(parts, i + 1,
                   Append(partitions,
                          [device |-> parts[i].device,
                           total  |-> get_size(parts[i].usage.val)]))

disk_loop(parts, i, partitions) ==
    IF i > Len(parts) THEN List(partitions)
    ELSE IF parts[i].usage = Exc("PermissionError")
         THEN disk_loop(parts, i + 1, partitions)
    ELSE IF Raises(parts[i].usage) THEN ErrorDescriptor(parts[i].usage)
    ELSE disk_loop(parts, i + 1,
                   Append(partitions,
                          [device |-> parts[i].device,
                           total  |-> get_size(parts[i].usage.val)]))

\* get_disk_info on a host whose disk_partitions answers d
get_disk_info(d) ==
    IF Raises(d) THEN ErrorDescriptor(d) ELSE disk_loop(d.val, 1, <<>>)

\* get_network_info on a host whose net_io_counters answers n
get_network_info(n) ==
    IF Raises(n) THEN ErrorDescriptor(n)
    ELSE [bytes_sent   |-> get_size(n.val.bytes_sent),
          packets_sent |-> n.val.packets_sent]

\* get_gpu_info: g is what "import GPUtil; GPUtil.getGPUs()" answers
get_gpu_info(g) ==
    IF Raises(g) THEN <<>>
    ELSE [i \in 1..Len(g.val) |-> [id |-> i, name |-> g.val[i]]]

\* get_temperature_info: t is what sensors_temperatures answers, the chips
\* as a sequence of [name, current]; no chips give the empty result
get_temperature_info(t) ==
    IF Raises(t) THEN <<>>
    ELSE [i \in 1..Len(t.val) |->
            [name    |-> t.val[i].name,
             entries |-> <<[label |-> "", current |-> t.val[i].current]>>]]

\* ------------------------------------------------------ get_system_info
BasicKeys == {"platform", "platform_release", "platform_version",
              "architecture", "hostname", "processor", "cpu_cores",
              "cpu_threads"}

\* the inner try block around GPUtil: any exception, also one raised while
\* an entry is formatted, leaves an empty list
RECURSIVE gpu_list_loop(_, _, _)
gpu_list_loop(gpus, i, list) ==
    IF i > Len(gpus) THEN list
    ELSE IF Raises(gpus[i].memoryTotal) THEN <<>>
    ELSE gpu_list_loop(gpus, i + 1,
                       Append(list, [name   |-> gpus[i].name,
                                     memory |-> gpus[i].memoryTotal.val]))

gpu_list(g) == IF Raises(g) THEN <<>> ELSE gpu_list_loop(g.val, 1, <<>>)

\* the inner try block around the display query
displays(d) ==
    IF d.system = "Windows"
    THEN IF Raises(d.metrics) THEN <<>>
         ELSE <<[resolution |-> d.metrics.val, primary |-> TRUE]>>
    ELSE <<>>

\* variant of get_system_info: no inner try block around GPUtil
get_system_info_gpu_fatal(s) ==
    IF Raises(s.basic) THEN ErrorDescriptor(s.basic)
    ELSE IF Raises(s.mem) THEN ErrorDescriptor(s.mem)
    ELSE IF Raises(s.gpu) THEN ErrorDescriptor(s.gpu)
    ELSE IF Raises(s.boot) THEN ErrorDescriptor(s.boot)
    ELSE s.basic.val @@
         ("ram_total" :> get_size(s.mem.val.total)) @@
         ("gpu_list"  :> gpu_list(s.gpu)) @@
         ("displays"  :> displays(s.display)) @@
         ("boot_time" :> s.boot.val)

\* get_system_info on a host s; s.basic is the exception raised while the
\* first dict is built, or the dict
get_system_info(s) ==
    IF Raises(s.basic) THEN ErrorDescriptor(s.basic)
    ELSE IF Raises(s.mem) THEN ErrorDescriptor(s.mem)
    ELSE IF Raises(s.boot) THEN ErrorDescriptor(s.boot)
    ELSE s.basic.val @@
         ("ram_total" :> get_size(s.mem.val.total)) @@
         ("gpu_list"  :> gpu_list(s.gpu)) @@
         ("displays"  :> displays(s.display)) @@
         ("boot_time" :> s.boot.val)

\* ------------------------------------------------------------ /api/stats
\* A host is what its OS layer answers to the collectors.  cpu_percent and
\* virtual_memory answer differently from one sample to the next (cpu and
\* mem are the sets of their possible answers); the other answers stay the
\* same while the server runs.
MEM_TOTAL == <<0, 0, 0, 16>>
CpuAnswers == {Exc("OSError"), Ok(0), Ok(37)}
MemAnswers == {Exc("OSError")} \cup
              {Ok([total |-> MEM_TOTAL, percent |-> p]) : p \in {0, 42}}

PartOk    == [device |-> "sda1", usage |-> Ok(<<0, 0, 0, 100>>)]
PartPerm  == [device |-> "sr0", usage |-> Exc("PermissionError")]
PartOSErr == [device |-> "sdb1", usage |-> Exc("OSError")]
DiskAnswers == {Exc("OSError"), Ok(<<>>), Ok(<<PartPerm, PartOk>>),
                Ok(<<PartOk, PartOSErr>>)}
NetOk       == Ok([bytes_sent |-> <<512, 1>>, packets_sent |-> 7])
NetAnswers  == {Exc("OSError"), NetOk}
GpuOk       == Ok(<<"gpu0">>)
GpuAnswers  == {Exc("ImportError"), GpuOk}
TempOk      == Ok(<<[name |-> "coretemp", current |-> 55]>>)
TempAnswers == {Exc("OSError"), Ok(<<>>), TempOk}

\* the collector that is given answer x fails
DiskFails(d) == Raises(d) \/ \E i \in 1..Len(d.val) :
                                Raises(d.val[i].usage) /\ d.val[i] # PartPerm
Failing(h) == {k \in {"disk", "net", "gpu", "temp"} :
                 IF k = "disk" THEN DiskFails(h.disk) ELSE Raises(h[k])}

\* the hosts of the sequential runs: at most MaxFailing failing collectors
\* among disk, network, gpu and temperature
SeqHosts == {h \in [cpu : {CpuAnswers}, mem : {MemAnswers},
                    disk : DiskAnswers, net : NetAnswers,
                    gpu : GpuAnswers, temp : TempAnswers] :
               Cardinality(Failing(h)) <= MaxFailing}

\* the hosts of the concurrent runs: cpu_percent works on one of them and
\* fails on the other
ConcHost(c) == [cpu  |-> {c},
                mem  |-> {Ok([total |-> MEM_TOTAL, percent |-> 42])},
                disk |-> Ok(<<PartPerm, PartOk>>), net |-> NetOk,
                gpu  |-> Exc("ImportError"), temp |-> TempOk]
ConcHosts == {ConcHost(Ok(37)), ConcHost(Exc("OSError"))}

\* values left in the histories by the i-th of the earlier requests
PastCpu(i) == (7 * i) % 101
PastRam(i) == (13 * i) % 101

InitLens == {0} \cup ((MAX_HISTORY - PrefillSlack)..MAX_HISTORY)

\* cpu_at and ram_at: the positions in cpu_log and ram_log of the entries
\* the request appended (0: none yet)
NoOps == [cpu_append |-> 0, ram_append |-> 0, cpu_pop |-> 0, ram_pop |-> 0,
          cpu_at |-> 0, ram_at |-> 0]

\* the server after n earlier requests that ran one after another, with no
\* request in flight (n = 0: the module has just been loaded)
InitServer ==
    /\ \E n \in InitLens :
         /\ cpu_history = [i \in 1..n |-> PastCpu(i)]
         /\ ram_history = [i \in 1..n |-> PastRam(i)]
         /\ served = n
    /\ cpu_log = cpu_history
    /\ ram_log = ram_history
    /\ pc = [t \in Requests |-> "start"]
    /\ cpu_info = [t \in Requests |-> None]
    /\ ram_info = [t \in Requests |-> None]
    /\ stats = [t \in Requests |-> None]
    /\ response = [t \in Requests |-> None]
    /\ ops = [t \in Requests |-> NoOps]
    /\ fin = None
    /\ fout = None

Init == InitServer /\ host \in ConcHosts

InitSeq == InitServer /\ host \in SeqHosts

\* cpu_info = get_cpu_info(); ram_info = get_memory_info()
Sample(t) ==
    /\ pc[t] = "start"
    /\ \E c \in host.cpu, m \in host.mem :
         /\ cpu_info' = [cpu_info EXCEPT ![t] = get_cpu_info(c)]
         /\ ram_info' = [ram_info EXCEPT ![t] = get_memory_info(m)]
    /\ pc' = [pc EXCEPT ![t] = "append_cpu"]
    /\ UNCHANGED <<cpu_history, ram_history, stats, response, host,
                   cpu_log, ram_log, ops, fin, fout, served>>

\* variant of AppendCpu: nothing is appended when the sample failed
AppendCpu_if_sampled(t) ==
    /\ pc[t] = "append_cpu"
    /\ IF "usage" \in DOMAIN cpu_info[t]
       THEN /\ cpu_history' = Append(cpu_history, cpu_info[t].usage)
            /\ cpu_log' = Append(cpu_log, cpu_info[t].usage)
            /\ ops' = [ops EXCEPT ![t].cpu_append = @ + 1,
                                  ![t].cpu_at = Len(cpu_log) + 1]
       ELSE UNCHANGED <<cpu_history, cpu_log, ops>>
    /\ pc' = [pc EXCEPT ![t] = "append_ram"]
    /\ UNCHANGED <<ram_history, cpu_info, ram_info, stats, response, host,
                   ram_log, fin, fout, served>>

\* cpu_history.append(cpu_info.get('usage', 0))
AppendCpu(t) ==
    /\ pc[t] = "append_cpu"
    /\ LET v == DictGet(cpu_info[t], "usage", 0)
       IN  /\ cpu_history' = Append(cpu_history, v)
           /\ cpu_log' = Append(cpu_log, v)
    /\ ops' = [ops EXCEPT ![t].cpu_append = @ + 1,
                          ![t].cpu_at = Len(cpu_log) + 1]
    /\ pc' = [pc EXCEPT ![t] = "append_ram"]
    /\ UNCHANGED <<ram_history, cpu_info, ram_info, stats, response, host,
                   ram_log, fin, fout, served>>

\* ram_history.append(ram_info.get('percent', 0))
AppendRam(t) ==
    /\ pc[t] = "append_ram"
    /\ LET v == DictGet(ram_info[t], "percent", 0)
       IN  /\ ram_history' = Append(ram_history, v)
           /\ ram_log' = Append(ram_log, v)
    /\ ops' = [ops EXCEPT ![t].ram_append = @ + 1,
                          ![t].ram_at = Len(ram_log) + 1]
    /\ pc' = [pc EXCEPT ![t] = "check_cpu"]
    /\ UNCHANGED <<cpu_history, cpu_info, ram_info, stats, response, host,
                   cpu_log, fin, fout, served>>

\* if len(cpu_history) > MAX_HISTORY:
CheckCpu(t) ==
    /\ pc[t] = "check_cpu"
    /\ pc' = [pc EXCEPT ![t] = IF Len(cpu_history) > MAX_HISTORY
                               THEN "pop_cpu" ELSE "check_ram"]
    /\ UNCHANGED <<cpu_history, ram_history, cpu_info, ram_info, stats,
                   response, host, cpu_log, ram_log, ops, fin, fout, served>>

\* variant of PopCpu: pop() without the index removes the newest entry
PopCpu_newest(t) ==
    /\ pc[t] = "pop_cpu"
    /\ cpu_history' = SubSeq(cpu_history, 1, Len(cpu_history) - 1)
    /\ ops' = [ops EXCEPT ![t].cpu_pop = @ + 1]
    /\ pc' = [pc EXCEPT ![t] = "check_ram"]
    /\ UNCHANGED <<ram_history, cpu_info, ram_info, stats, response, host,
                   cpu_log, ram_log, fin, fout, served>>

\* cpu_history.pop(0)
PopCpu(t) ==
    /\ pc[t] = "pop_cpu"
    /\ cpu_history' = Tail(cpu_history)
    /\ ops' = [ops EXCEPT ![t].cpu_pop = @ + 1]
    /\ pc' = [pc EXCEPT ![t] = "check_ram"]
    /\ UNCHANGED <<ram_history, cpu_info, ram_info, stats, response, host,
                   cpu_log, ram_log, fin, fout, served>>

\* if len(ram_history) > MAX_HISTORY:
CheckRam(t) ==
    /\ pc[t] = "check_ram"
    /\ pc' = [pc EXCEPT ![t] = IF Len(ram_history) > MAX_HISTORY
                               THEN "pop_ram" ELSE "assemble"]
    /\ UNCHANGED <<cpu_history, ram_history, cpu_info, ram_info, stats,
                   response, host, cpu_log, ram_log, ops, fin, fout, served>>

\* ram_history.pop(0)
PopRam(t) ==
    /\ pc[t] = "pop_ram"
    /\ ram_history' = Tail(ram_history)
    /\ ops' = [ops EXCEPT ![t].ram_pop = @ + 1]
    /\ pc' = [pc EXCEPT ![t] = "assemble"]
    /\ UNCHANGED <<cpu_history, cpu_info, ram_info, stats, response, host,
                   cpu_log, ram_log, fin, fout, served>>

\* variant of Assemble: the collectors share one try block, so a failure
\* of the disk or network collector is the result of the ones after it
Assemble_one_try(t) ==
    /\ pc[t] = "assemble"
    /\ LET d == get_disk_info(host.disk)
           n == IF IsErrorDescriptor(d) THEN d ELSE get_network_info(host.net)
           g == IF IsErrorDescriptor(n) THEN <<>> ELSE get_gpu_info(host.gpu)
           x == IF IsErrorDescriptor(n) THEN <<>>
                ELSE get_temperature_info(host.temp)
       IN  stats' = [stats EXCEPT ![t] =
                       [cpu |-> cpu_info[t], memory |-> ram_info[t],
                        disk |-> d, network |-> n, gpu |-> g,
                        temperature |-> x]]
    /\ pc' = [pc EXCEPT ![t] = "jsonify"]
    /\ UNCHANGED <<cpu_history, ram_history, cpu_info, ram_info, response,
                   host, cpu_log, ram_log, ops, fin, fout, served>>

\* stats = {...}: the remaining collectors run; 'history' holds the two
\* shared lists themselves, not copies of them
Assemble(t) ==
    /\ pc[t] = "assemble"
    /\ stats' = [stats EXCEPT ![t] =
                   [cpu         |-> cpu_info[t],
                    memory      |-> ram_info[t],
                    disk        |-> get_disk_info(host.disk),
                    network     |-> get_network_info(host.net),
                    gpu         |-> get_gpu_info(host.gpu),
                    temperature |-> get_temperature_info(host.temp)]]
    /\ pc' = [pc EXCEPT ![t] = "jsonify"]
    /\ UNCHANGED <<cpu_history, ram_history, cpu_info, ram_info, response,
                   host, cpu_log, ram_log, ops, fin, fout, served>>

\* return jsonify(stats): the lists are serialized as they are now
Jsonify(t) ==
    /\ pc[t] = "jsonify"
    /\ response' = [response EXCEPT ![t] =
                      [cpu         |-> stats[t].cpu,
                       memory      |-> stats[t].memory,
                       disk        |-> stats[t].disk,
                       network     |-> stats[t].network,
                       gpu         |-> stats[t].gpu,
                       temperature |-> stats[t].temperature,
                       history     |-> [cpu |-> cpu_history,
                                        ram |-> ram_history]]]
    /\ served' = served + 1
    /\ pc' = [pc EXCEPT ![t] = "done"]
    /\ UNCHANGED <<cpu_history, ram_history, cpu_info, ram_info, stats,
                   host, cpu_log, ram_log, ops, fin, fout>>

api_stats(t) ==
    \/ Sample(t)
    \/ AppendCpu(t)
    \/ AppendRam(t)
    \/ CheckCpu(t)
    \/ PopCpu(t)
    \/ CheckRam(t)
    \/ PopRam(t)
    \/ Assemble(t)
    \/ Jsonify(t)

\* app.run: the server handles every request on a thread of its own
Next == \E t \in Requests : api_stats(t)

Spec == Init /\ [][Next]_vars

\* the same server when every request arrives after the previous one has
\* been answered
InFlight(t) == pc[t] \notin {"start", "done"}

NextSeq ==
    \E t \in Requests :
       /\ \A u \in Requests \ {t} : ~InFlight(u) /\ (u < t => pc[u] = "done")
       /\ api_stats(t)

SpecSeq == InitSeq /\ [][NextSeq]_vars

\* ------------------------------------------------- the functions alone
\* the server variables of a run that only calls one function
NoServer ==
    /\ cpu_history = <<>>
    /\ ram_history = <<>>
    /\ cpu_log = <<>>
    /\ ram_log = <<>>
    /\ cpu_info = None
    /\ ram_info = None
    /\ stats = None
    /\ response = None
    /\ host = None
    /\ ops = None
    /\ served = 0
    /\ fout = None
    /\ pc = "call"

Returns(r) ==
    /\ pc = "call"
    /\ fout' = r
    /\ pc' = "returned"
    /\ UNCHANGED <<cpu_history, ram_history, cpu_info, ram_info, stats,
                   response, host, cpu_log, ram_log, ops, served, fin>>

\* byte counts of n digits with at most 53 significant bits (five digits
\* and zeros below them), which the floats of the program hold exactly
DigitSet == {0, 1, 3, 128, 512, 1023}
SigDigits == 53 \div 10
SizeInputsOfLen(n) ==
    IF n <= SigDigits
    THEN {d \in [1..n -> DigitSet] : n = 1 \/ d[n] # 0}
    ELSE {[i \in 1..n |-> IF i <= n - SigDigits THEN 0
                          ELSE d[i - (n - SigDigits)]] :
            d \in {e \in [1..SigDigits -> DigitSet] : e[SigDigits] # 0}}
SizeInputs == UNION {SizeInputsOfLen(n) : n \in 1..MaxDigits}

InitSize == NoServer /\ fin \in SizeInputs
CallGetSize == Returns(get_size(fin))
SpecSize == InitSize /\ [][CallGetSize]_vars

\* get_size on two byte counts a <= b
PairDigitSet == {0, 1, 1023}
PairSizes == {d \in SizeInputs : \A i \in 1..Len(d) : d[i] \in PairDigitSet}

\* a <= b on byte counts without leading zero digits: the shorter count is
\* the smaller one, counts of one length compare from the top digit down
RECURSIVE DigitsLeq(_, _, _)
DigitsLeq(a, b, i) ==
    IF i = 0 THEN TRUE
    ELSE IF a[i] # b[i] THEN a[i] < b[i]
    ELSE DigitsLeq(a, b, i - 1)
BytesLeq(a, b) ==
    IF Len(a) # Len(b) THEN Len(a) < Len(b) ELSE DigitsLeq(a, b, Len(a))

InitSizePair ==
    /\ NoServer
    /\ fin \in {x \in [a : PairSizes, b : PairSizes] : BytesLeq(x.a, x.b)}
CallGetSizePair == Returns([a |-> get_size(fin.a), b |-> get_size(fin.b)])
SpecSizePair == InitSizePair /\ [][CallGetSizePair]_vars

\* enumerations of up to MaxPartitions partitions
UsageAnswers == {Exc("PermissionError"), Exc("OSError"),
                 Ok(<<0, 0, 0, 100>>), Ok(<<0, 1>>)}
PartitionLists ==
    UNION {{[i \in 1..n |-> [device |-> i, usage |-> u[i]]] :
              u \in [1..n -> UsageAnswers]} : n \in 0..MaxPartitions}
DiskInputs == {Exc("OSError")} \cup {Ok(parts) : parts \in PartitionLists}

InitDisk == NoServer /\ fin \in DiskInputs
CallGetDiskInfo == Returns(get_disk_info(fin))
SpecDisk == InitDisk /\ [][CallGetDiskInfo]_vars

\* hosts of get_system_info
BasicOk == [k \in BasicKeys |-> k]
GpuObjects == {[name |-> "gpu", memoryTotal |-> m] :
                 m \in {Ok(8192), Exc("TypeError")}}
SysHosts ==
    [basic   : {Exc("OSError"), Ok(BasicOk)},
     mem     : {Exc("OSError"), Ok([total |-> MEM_TOTAL])},
     gpu     : {Exc("ImportError"), Exc("OSError")} \cup
               {Ok(g) : g \in UNION {[1..n -> GpuObjects] : n \in 0..MaxGpus}},
     display : {[system |-> "Linux", metrics |-> Exc("AttributeError")],
                [system |-> "Windows", metrics |-> Exc("OSError")],
                [system |-> "Windows", metrics |-> Ok("1920x1080")]},
     boot    : {Exc("OSError"), Ok("2026-01-01 00:00:00")}]

InitSys == NoServer /\ fin \in SysHosts
CallGetSystemInfo == Returns(get_system_info(fin))
SpecSys == InitSys /\ [][CallGetSystemInfo]_vars

\* ================================================================ claims
AllDone == \A t \in Requests : pc[t] = "done"
Quiescent == \A t \in Requests : ~InFlight(t)

RECURSIVE SumOps(_, _)
SumOps(field, n) == IF n = 0 THEN 0 ELSE ops[n][field] + SumOps(field, n - 1)

\* C1: once all concurrent requests have completed, each history is as long
\* as min(number of appends, MAX_HISTORY).
C1_FinalLength ==
    AllDone => /\ Len(cpu_history) = Min(Len(cpu_log), MAX_HISTORY)
               /\ Len(ram_history) = Min(Len(ram_log), MAX_HISTORY)

\* C2: after N requests run one after another, each history has length
\* min(N, MAX_HISTORY) and holds the last min(N, MAX_HISTORY) appended
\* values in append order.
C2_SequentialWindow ==
    Quiescent =>
       /\ Len(cpu_log) = served
       /\ Len(ram_log) = served
       /\ Len(cpu_history) = Min(served, MAX_HISTORY)
       /\ Len(ram_history) = Min(served, MAX_HISTORY)
       /\ cpu_history = LastN(cpu_log, Min(served, MAX_HISTORY))
       /\ ram_history = LastN(ram_log, Min(served, MAX_HISTORY))

\* C2 witness: more than MAX_HISTORY requests have been served one after
\* another and the last one evicted an entry from each history
C2_Witness ==
    /\ Quiescent
    /\ served > MAX_HISTORY
    /\ \E t \in Requests : /\ pc[t] = "done"
                           /\ ops[t].cpu_pop = 1
                           /\ ops[t].ram_pop = 1

\* C3: in every state the length of each history is within 0..MAX_HISTORY.
C3_LengthBound ==
    /\ Len(cpu_history) \in 0..MAX_HISTORY
    /\ Len(ram_history) \in 0..MAX_HISTORY

\* C4: a request has appended exactly one entry to each history before its
\* response is assembled, never evicts more than one entry per history, and
\* evictions take index 0 (each history is the log of its appends without
\* as many of the oldest values as there were evictions).
C4_OneAppendOneEviction ==
    /\ \A t \in Requests :
          /\ pc[t] \in {"assemble", "jsonify", "done"} =>
                ops[t].cpu_append = 1 /\ ops[t].ram_append = 1
          /\ ops[t].cpu_append <= 1 /\ ops[t].ram_append <= 1
          /\ ops[t].cpu_pop <= 1 /\ ops[t].ram_pop <= 1
          /\ pc[t] \in {"start", "append_cpu"} => ops[t] = NoOps
    /\ cpu_history = SubSeq(cpu_log, SumOps("cpu_pop", MaxRequests) + 1,
                            Len(cpu_log))
    /\ ram_history = SubSeq(ram_log, SumOps("ram_pop", MaxRequests) + 1,
                            Len(ram_log))

\* C4 witness: a request whose CPU sample failed has been answered after
\* one append and one eviction on each history
C4_Witness ==
    \E t \in Requests :
       /\ pc[t] = "done"
       /\ IsErrorDescriptor(cpu_info[t])
       /\ ops[t].cpu_append = 1 /\ ops[t].ram_append = 1
       /\ ops[t].cpu_pop = 1 /\ ops[t].ram_pop = 1

\* the section from a request's first append to its last trim check/pop
InSection(t) ==
    pc[t] \in {"append_ram", "check_cpu", "pop_cpu", "check_ram", "pop_ram"}

\* C5: no two requests are inside the history-mutating section at once.
C5_MutualExclusion ==
    \A t, u \in Requests : t # u => ~(InSection(t) /\ InSection(u))

\* C6: every response carries at most MAX_HISTORY entries per history.
C6_ResponseBound ==
    \A t \in Requests :
       pc[t] = "done" =>
          /\ Len(response[t].history.cpu) <= MAX_HISTORY
          /\ Len(response[t].history.ram) <= MAX_HISTORY

\* the unit letters of a formatted size: what stands between the two
\* decimals and the final "B"
UnitOf(str) ==
    LET dot == CHOOSE i \in 1..Len(str) : SubSeq(str, i, i) = "."
    IN  SubSeq(str, dot + 3, Len(str) - 1)

\* C7: get_size returns a string "<value><unit>B" for every byte count, its
\* unit being the tier reached by dividing by 1024 while the value is at
\* least 1024, and P for every count from 1024^5 on; 0 gives "0.00B", 1024
\* "1.00KB", 1536 "1.50KB" and 3 * 1024^5 "3.00PB".
C7_AlwaysFormatted ==
    pc = "returned" =>
       /\ fout # None
       /\ UnitOf(fout) = UNITS[Min(Len(fin), Len(UNITS))]
       /\ fin = <<0>> => fout = "0.00B"
       /\ fin = <<0, 1>> => fout = "1.00KB"
       /\ fin = <<512, 1>> => fout = "1.50KB"
       /\ fin = <<0, 0, 0, 0, 0, 3>> => fout = "3.00PB"

\* C8: when only permission errors occur in an enumeration, get_disk_info
\* returns the entries of exactly the partitions whose usage query
\* succeeded, in enumeration order, and no error descriptor.
OnlyPermissionErrors(d) ==
    /\ ~Raises(d)
    /\ \A i \in 1..Len(d.val) :
          Raises(d.val[i].usage) => d.val[i].usage = Exc("PermissionError")
    /\ \E i \in 1..Len(d.val) : Raises(d.val[i].usage)

Readable(parts) == SelectSeq(parts, LAMBDA p : ~Raises(p.usage))

C8_PermissionSkip ==
    (pc = "returned" /\ OnlyPermissionErrors(fin)) =>
       /\ ~IsErrorDescriptor(fout)
       /\ Len(fout.list) = Len(Readable(fin.val))
       /\ \A i \in 1..Len(fout.list) :
             /\ fout.list[i].device = Readable(fin.val)[i].device
             /\ fout.list[i].total =
                   get_size(Readable(fin.val)[i].usage.val)

\* C8 witness: a readable partition after an unreadable one is returned
C8_Witness ==
    /\ pc = "returned"
    /\ OnlyPermissionErrors(fin)
    /\ Len(fin.val) = MaxPartitions
    /\ Raises(fin.val[1].usage)
    /\ ~Raises(fin.val[MaxPartitions].usage)
    /\ Len(fout.list) >= 1

\* C9: in an answered request every collector's sub-result depends on that
\* collector alone: it is the value of a healthy collector whenever that
\* collector did not fail, whatever the other collectors did, and the
\* error descriptor (empty for gpu and temperature) when it failed.
StatsKeys == {"cpu", "memory", "disk", "network", "gpu", "temperature",
              "history"}

C9_FailureConfined ==
    \A t \in Requests :
       pc[t] = "done" =>
          LET r == response[t] IN
          /\ DOMAIN r = StatsKeys
          /\ r.cpu = cpu_info[t]
          /\ \/ r.cpu = [error |-> "OSError"]
             \/ r.cpu \in {[usage |-> 0], [usage |-> 37]}
          /\ r.memory = ram_info[t]
          /\ \/ r.memory = [error |-> "OSError"]
             \/ r.memory \in {[total |-> "16.00GB", percent |-> p] :
                                p \in {0, 42}}
          /\ IF DiskFails(host.disk) THEN r.disk = [error |-> "OSError"]
             ELSE r.disk = IF host.disk = Ok(<<>>) THEN List(<<>>)
                           ELSE List(<<[device |-> "sda1",
                                        total |-> "100.00GB"]>>)
          /\ IF Raises(host.net) THEN r.network = [error |-> "OSError"]
             ELSE r.network = [bytes_sent |-> "1.50KB", packets_sent |-> 7]
          /\ r.gpu = IF Raises(host.gpu) THEN <<>>
                     ELSE <<[id |-> 1, name |-> "gpu0"]>>
          /\ r.temperature =
                IF host.temp = TempOk
                THEN <<[name |-> "coretemp",
                        entries |-> <<[label |-> "", current |-> 55]>>]>>
                ELSE <<>>

\* C9 witness: a request is answered on a host whose disk collector fails
\* while its network collector works, after its CPU sample failed
C9_Witness ==
    \E t \in Requests :
       /\ pc[t] = "done"
       /\ Failing(host) = {"disk"}
       /\ IsErrorDescriptor(response[t].cpu)
       /\ IsErrorDescriptor(response[t].disk)
       /\ ~IsErrorDescriptor(response[t].network)
       /\ ~IsErrorDescriptor(response[t].memory)

\* C10: get_system_info returns all twelve keys or only the key error: the
\* error record exactly when the basic, memory or boot-time query fails; a
\* failing GPU or display enumeration leaves that list empty.
SystemKeys == BasicKeys \cup {"ram_total", "gpu_list", "displays",
                              "boot_time"}
GpuFails(g) ==
    Raises(g) \/ \E i \in 1..Len(g.val) : Raises(g.val[i].memoryTotal)
DisplayFails(d) == d.system = "Windows" /\ Raises(d.metrics)
TopLevelFails(s) == Raises(s.basic) \/ Raises(s.mem) \/ Raises(s.boot)

C10_CompleteOrError ==
    pc = "returned" =>
       /\ DOMAIN fout = SystemKeys \/ DOMAIN fout = {"error"}
       /\ TopLevelFails(fin) => DOMAIN fout = {"error"}
       /\ ~TopLevelFails(fin) =>
             /\ DOMAIN fout = SystemKeys
             /\ GpuFails(fin.gpu) => fout.gpu_list = <<>>
             /\ DisplayFails(fin.display) => fout.displays = <<>>

\* C10 witness: GPU and display enumeration both fail and the complete
\* record is returned
C10_Witness ==
    /\ pc = "returned"
    /\ GpuFails(fin.gpu)
    /\ DisplayFails(fin.display)
    /\ DOMAIN fout = SystemKeys
    /\ fout.gpu_list = <<>>
    /\ fout.displays = <<>>

\* the tier of a formatted size: the position of its unit in UNITS
TierOf(str) == CHOOSE u \in 1..Len(UNITS) : UNITS[u] = UnitOf(str)

\* C11: for byte counts a <= b, get_size gives both a unit tier and the
\* tier of get_size(a) is not above the tier of get_size(b).
C11_TierMonotonic ==
    pc = "returned" =>
       /\ fout.a # None
       /\ fout.b # None
       /\ TierOf(fout.a) <= TierOf(fout.b)

\* the request that appended position k of a log (field "cpu_at" or
\* "ram_at"); the k-th of the earlier requests, written -k, when none of
\* the requests of this run did
OwnerOf(field, k) ==
    IF \E t \in Requests : ops[t][field] = k
    THEN CHOOSE t \in Requests : ops[t][field] = k
    ELSE 0 - k

\* the request that appended cpu_history[i], ram_history[i]: every history
\* is its log without the evicted oldest values
CpuOwner(i) == OwnerOf("cpu_at", SumOps("cpu_pop", MaxRequests) + i)
RamOwner(i) == OwnerOf("ram_at", SumOps("ram_pop", MaxRequests) + i)

\* C12: whenever no request is between its cpu_history append and its
\* ram_history trim, the two histories have the same length and entries at
\* the same index were appended by the same request.
C12_Parallel ==
    (\A t \in Requests : ~InSection(t)) =>
       /\ Len(cpu_history) = Len(ram_history)
       /\ \A i \in 1..Len(cpu_history) : CpuOwner(i) = RamOwner(i)

\* C13: a request whose CPU (memory) sample failed still appends exactly
\* one entry to cpu_history (ram_history) and that entry is 0, the value a
\* true reading of 0 appends; a successful sample appends its reading.
C13_FailedSampleIsZero ==
    \A t \in Requests :
       /\ pc[t] \notin {"start", "append_cpu"} =>
             /\ ops[t].cpu_append = 1
             /\ cpu_log[ops[t].cpu_at] =
                   IF IsErrorDescriptor(cpu_info[t]) THEN 0
                   ELSE cpu_info[t].usage
       /\ pc[t] \notin {"start", "append_cpu", "append_ram"} =>
             /\ ops[t].ram_append = 1
             /\ ram_log[ops[t].ram_at] =
                   IF IsErrorDescriptor(ram_info[t]) THEN 0
                   ELSE ram_info[t].percent

\* C13 witness: a request whose two samples failed has been answered, its
\* two zero entries are in the histories, as is the true reading of 0 of
\* another request
C13_Witness ==
    \E t, u \in Requests :
       /\ pc[t] = "done" /\ pc[u] = "done"
       /\ IsErrorDescriptor(cpu_info[t])
       /\ IsErrorDescriptor(ram_info[t])
       /\ cpu_info[u] = [usage |-> 0]
       /\ cpu_log[ops[t].cpu_at] = cpu_log[ops[u].cpu_at]
       /\ Len(cpu_history) = Len(cpu_log)
       /\ Len(cpu_log) = MaxRequests

\* C14: when the usage query of a partition fails with anything but a
\* permission error, get_disk_info returns a single error descriptor and
\* none of the entries collected for the other partitions.
OtherErrorAt(d, i) ==
    Raises(d.val[i].usage) /\ d.val[i].usage # Exc("PermissionError")

C14_OtherErrorDiscardsAll ==
    (pc = "returned" /\ ~Raises(fin)) =>
       ((\E i \in 1..Len(fin.val) : OtherErrorAt(fin, i))
           <=> IsErrorDescriptor(fout))
       /\ (IsErrorDescriptor(fout) => fout = [error |-> "OSError"])

\* C14 witness: an error descriptor is returned although a partition before
\* and a partition after the failing one were readable
C14_Witness ==
    /\ pc = "returned"
    /\ ~Raises(fin)
    /\ Len(fin.val) = MaxPartitions
    /\ ~Raises(fin.val[1].usage)
    /\ ~Raises(fin.val[MaxPartitions].usage)
    /\ \E i \in 1..Len(fin.val) : OtherErrorAt(fin, i)
    /\ fout = [error |-> "OSError"]

====
